---- MODULE Spec2Model ----
(***************************************************************************)
(* A model of the SMB file service (src/smb_service.py): configuration     *)
(* loading, construction of SMBFileService and its operations upload_file, *)
(* download_file, list_files, _ensure_remote_dir and test_connection,      *)
(* against a local filesystem and a remote share reached through the       *)
(* smbclient library; and of the REST gateway in front of it               *)
(* (src/smb_api.py): its initialisation, its seven routes and the scratch  *)
(* files of its uploads and downloads, one request at a time (ApiSpec) and *)
(* with transfers in flight on several threads (ConcurrentSpec).           *)
(*                                                                         *)
(* Python strings are sequences of one-character strings, so that          *)
(* concatenation and lstrip('/') are computed rather than assumed.  A      *)
(* Python value that may be None is a set with at most one element.  An    *)
(* exception is a record [type, msg] whose msg is str(e) as a sequence of  *)
(* tokens; a dict that may lack keys is a function on the keys it has.     *)
(***************************************************************************)
EXTENDS Integers, Sequences, FiniteSets, TLC

\* ------------------------------------------------------------------ bounds
\* Longest file content, in bytes.
MaxLen == 2
\* Bytes copied per read; the code uses 64 * 1024 (smb_service.py:119,184),
\* scaled down here so that files of MaxLen bytes take several chunks.
chunk_size == 1

\* ----------------------------------------------------------------- strings
RECURSIVE lstrip(_)
\* Faulty variant of lstrip: removes at most one leading slash.
lstrip_one(s) ==
    IF s # <<>> /\ Head(s) = "/" THEN Tail(s) ELSE s

\* str.lstrip('/'): drop every leading slash.
lstrip(s) ==
    IF s # <<>> /\ Head(s) = "/" THEN lstrip(Tail(s)) ELSE s

Digits == {"0", "1", "2", "3", "4", "5", "6", "7", "8", "9"}

DigitVal(c) ==
    CASE c = "0" -> 0 [] c = "1" -> 1 [] c = "2" -> 2 [] c = "3" -> 3
      [] c = "4" -> 4 [] c = "5" -> 5 [] c = "6" -> 6 [] c = "7" -> 7
      [] c = "8" -> 8 [] c = "9" -> 9

\* int(s) raises ValueError unless s is a decimal literal.
IsIntLiteral(s) == s # <<>> /\ \A i \in 1..Len(s) : s[i] \in Digits

RECURSIVE ParseInt(_)
ParseInt(s) ==
    IF s = <<>> THEN 0
    ELSE 10 * ParseInt(SubSeq(s, 1, Len(s) - 1)) + DigitVal(s[Len(s)])

\* ----------------------------------------------------------- configuration
RequiredFields == <<"server", "share", "username", "password">>

RequiredFieldSet == {RequiredFields[i] : i \in 1..Len(RequiredFields)}

\* The environment variable that carries a field (smb_service.py:305-313).
EnvName(f) ==
    CASE f = "server" -> "SMB_SERVER"
      [] f = "share" -> "SMB_SHARE"
      [] f = "username" -> "SMB_USERNAME"
      [] f = "password" -> "SMB_PASSWORD"
      [] f = "port" -> "SMB_PORT"
      [] f = "timeout" -> "SMB_TIMEOUT"

\* os.getenv(name, default)
getenv(env, name, default) ==
    IF name \in DOMAIN env THEN env[name] ELSE default

\* dataclass SMBConfig; domain, require_signing and encrypt do not enter
\* any path or result the service computes apart from test_connection's
\* echo of require_signing, and are left at their defaults.
SMBConfig(server, share, username, password, port, timeout) ==
    [server |-> server, share |-> share, username |-> username,
     password |-> password, port |-> port, timeout |-> timeout]

\* Python truthiness of a str-or-None value: None and '' are falsy.
Truthy(v) == v # {} /\ v # {<<>>}

\* A loader's outcome: a configuration, or the exception it raised.
Loaded(cfg) == [ok |-> TRUE, config |-> {cfg}, exc |-> {}]

Raised(type, msg) == [ok |-> FALSE, config |-> {}, exc |-> {[type |-> type, msg |-> msg]}]

MissingEnvMessage ==
    <<"Missing required environment variables:",
      "SMB_SERVER", "SMB_SHARE", "SMB_USERNAME", "SMB_PASSWORD">>

\* Faulty variant of load_config_from_env: the validation is skipped.
load_config_from_env_novalidate(env) ==
    LET port == getenv(env, "SMB_PORT", <<"4", "4", "5">>)
        timeout == getenv(env, "SMB_TIMEOUT", <<"3", "0">>)
    IN  IF ~IsIntLiteral(port)
        THEN Raised("ValueError", <<"invalid literal for int() with base 10:">> \o port)
        ELSE IF ~IsIntLiteral(timeout)
        THEN Raised("ValueError", <<"invalid literal for int() with base 10:">> \o timeout)
        ELSE Loaded(SMBConfig(getenv(env, "SMB_SERVER", <<>>),
                              getenv(env, "SMB_SHARE", <<>>),
                              getenv(env, "SMB_USERNAME", <<>>),
                              getenv(env, "SMB_PASSWORD", <<>>),
                              ParseInt(port), ParseInt(timeout)))

\* load_config_from_env: the SMBConfig(...) call evaluates int(SMB_PORT) and
\* int(SMB_TIMEOUT) first, so a malformed number raises before the required
\* fields are validated; every exception is logged and re-raised.
load_config_from_env(env) ==
    LET port == getenv(env, "SMB_PORT", <<"4", "4", "5">>)
        timeout == getenv(env, "SMB_TIMEOUT", <<"3", "0">>)
        server == getenv(env, "SMB_SERVER", <<>>)
        share == getenv(env, "SMB_SHARE", <<>>)
        username == getenv(env, "SMB_USERNAME", <<>>)
        password == getenv(env, "SMB_PASSWORD", <<>>)
    IN  IF ~IsIntLiteral(port)
        THEN Raised("ValueError", <<"invalid literal for int() with base 10:">> \o port)
        ELSE IF ~IsIntLiteral(timeout)
        THEN Raised("ValueError", <<"invalid literal for int() with base 10:">> \o timeout)
        ELSE IF ~(\A v \in {server, share, username, password} : v # <<>>)
        THEN Raised("ValueError", MissingEnvMessage)
        ELSE Loaded(SMBConfig(server, share, username, password,
                              ParseInt(port), ParseInt(timeout)))

\* The required fields absent from a JSON object, in declaration order.
MissingKeys(data) ==
    SelectSeq(RequiredFields, LAMBDA f : f \notin DOMAIN data)

\* load_config_from_file: open + json.load may raise (readable = FALSE);
\* SMBConfig(**config_data) raises TypeError for an absent required field and
\* accepts whatever values are present; nothing validates emptiness.
load_config_from_file(readable, data) ==
    IF ~readable
    THEN Raised("OSError", <<"No such file or directory">>)
    ELSE IF MissingKeys(data) # <<>>
    THEN Raised("TypeError",
                <<"__init__() missing required positional arguments:">> \o MissingKeys(data))
    ELSE Loaded(SMBConfig(data["server"], data["share"], data["username"],
                          data["password"], 445, 30))

\* smb_service.main without --env/--config: argparse leaves an option that
\* was not given as None; parser.error exits the process.
load_config_from_args(args) ==
    LET Arg(f) == IF f \in DOMAIN args THEN {args[f]} ELSE {}
    IN  IF ~(\A f \in RequiredFieldSet : Truthy(Arg(f)))
        THEN Raised("SystemExit",
                    <<"Must provide either --env, --config file, or server/share/username/password">>)
        ELSE Loaded(SMBConfig(args["server"], args["share"], args["username"],
                              args["password"], 445, 30))

\* ------------------------------------------------------------------- paths
\* Number of leading slashes of a string.
RECURSIVE LeadingSlashes(_)
LeadingSlashes(s) ==
    IF s # <<>> /\ Head(s) = "/" THEN 1 + LeadingSlashes(Tail(s)) ELSE 0

\* The non-empty components of a slash-separated string, in order.
RECURSIVE SplitAcc(_, _, _)
SplitAcc(s, cur, acc) ==
    LET done == IF cur = <<>> THEN acc ELSE Append(acc, cur)
    IN  IF s = <<>> THEN done
        ELSE IF Head(s) = "/" THEN SplitAcc(Tail(s), <<>>, done)
        ELSE SplitAcc(Tail(s), Append(cur, Head(s)), acc)

Components(s) == SplitAcc(s, <<>>, <<>>)

\* "/".join(parts)
RECURSIVE Join(_)
Join(parts) ==
    IF parts = <<>> THEN <<>>
    ELSE IF Len(parts) = 1 THEN parts[1]
    ELSE parts[1] \o <<"/">> \o Join(Tail(parts))

\* pathlib.PurePosixPath(s): exactly two leading slashes are kept, one or
\* three and more become one; empty components and a trailing slash vanish.
PosixRoot(s) ==
    IF LeadingSlashes(s) = 2 THEN <<"/", "/">>
    ELSE IF LeadingSlashes(s) >= 1 THEN <<"/">>
    ELSE <<>>

\* str(Path(s).parent)
PathParent(s) ==
    LET parts == Components(s)
        up == IF parts = <<>> THEN parts ELSE SubSeq(parts, 1, Len(parts) - 1)
    IN  IF PosixRoot(s) = <<>> /\ up = <<>> THEN <<".">>
        ELSE PosixRoot(s) \o Join(up)

\* -------------------------------------------------------- local filesystem
\* A local path is its sequence of components below the working directory;
\* the working directory <<>> always exists.  lf maps each existing regular
\* file to its bytes, ld is the set of existing directories.
LocalParent(p) == SubSeq(p, 1, Len(p) - 1)

LocalPrefixes(p) == {SubSeq(p, 1, n) : n \in 1..Len(p)}

LocalIsDir(ld, p) == p = <<>> \/ p \in ld

\* Path.exists()
LocalExists(lf, ld, p) == p \in DOMAIN lf \/ LocalIsDir(ld, p)

\* Path.mkdir(parents=True, exist_ok=True) can succeed unless the path or
\* one of its ancestors is a regular file.
LocalMkdirOk(lf, p) == \A q \in LocalPrefixes(p) : q \notin DOMAIN lf

\* f with key k set to v, whether or not k is in its domain.
Put(f, k, v) == [x \in DOMAIN f \cup {k} |-> IF x = k THEN v ELSE f[x]]

\* ------------------------------------------------------------ the SMB share
\* A remote path is addressed by the components of its UNC string:
\* <<server, share, dir, ..., name>>.  rf maps each existing remote file to
\* its bytes, rd is the set of existing directories below the share root.
RemoteKey(path) == Components(path)

\* A UNC path needs a server and a share.
RemoteValid(key) == Len(key) >= 2

\* The server the model runs against exports one share.
ShareRoot == <<<<"h">>, <<"s">>>>

RemoteIsDir(rd, key) == key = ShareRoot \/ key \in rd

\* smbclient.path.exists
RemoteExists(rf, rd, key) == RemoteIsDir(rd, key) \/ key \in DOMAIN rf

\* The directories smbclient.makedirs creates: the path and each ancestor
\* below the share.
RemoteChain(key) == {SubSeq(key, 1, n) : n \in 3..Len(key)}

\* smbclient.makedirs(path) can succeed: below the share, not yet existing,
\* and no file in the way.
RemoteMakedirsOk(rf, rd, key) ==
    /\ Len(key) > 2
    /\ SubSeq(key, 1, 2) = ShareRoot
    /\ ~RemoteExists(rf, rd, key)
    /\ \A q \in RemoteChain(key) : q \notin DOMAIN rf

\* smbclient.open_file(path, mode='wb') can succeed: the parent directory
\* exists and the path is not a directory.
RemoteOpenWriteOk(rf, rd, key) ==
    /\ Len(key) > 2
    /\ RemoteIsDir(rd, SubSeq(key, 1, Len(key) - 1))
    /\ key \notin rd

\* The names directly inside a remote directory.
RemoteChildren(rf, rd, key) ==
    {k[Len(k)] : k \in {q \in DOMAIN rf \cup rd :
                          Len(q) = Len(key) + 1 /\ SubSeq(q, 1, Len(key)) = key}}

\* A set as a list, in the order the server enumerates it.
RECURSIVE SetToSeq(_)
SetToSeq(S) ==
    IF S = {} THEN <<>>
    ELSE LET x == CHOOSE y \in S : TRUE IN <<x>> \o SetToSeq(S \ {x})

\* ------------------------------------------------------------------- faults
\* The failure injected into one call: the library or system call named by
\* step raises an exception whose str() is msg, the k-th time it is made.
NoFault == [step |-> "none", k |-> 0, msg |-> <<>>]

\* str(e) of an exception raised by a library call.
Fault(step, k) == {[step |-> step, k |-> k, msg |-> <<"smb failure">>]}

\* An exception constructed without arguments, such as MemoryError() or
\* TimeoutError(): its str(e) is the empty string.  The handlers treat every
\* call alike, so it is injected at one call of each operation.
SilentFault(step, k) == {[step |-> step, k |-> k, msg |-> <<>>]}

Hits(fault, step, k) == fault.step = step /\ fault.k = k

\* ---------------------------------------------------------------- outcomes
\* What a block of code leaves behind: the value it returned (ret) or the
\* exception it raised (exc), the local files and directories, the remote
\* files and directories, the library and system calls it made in order
\* (trace), and whether the injected fault was reached (fired).
Outcome(ret, exc, lf, ld, rf, rd, trace, fired) ==
    [ret |-> ret, exc |-> exc, lf |-> lf, ld |-> ld, rf |-> rf, rd |-> rd,
     trace |-> trace, fired |-> fired]

Exc(type, msg) == {[type |-> type, msg |-> msg]}

\* Faulty variant of Catches: `except OSError`, which lets the library's own
\* exception classes through.
Catches_oserror(e) ==
    e.type \in {"OSError", "FileNotFoundError", "FileExistsError",
                "IsADirectoryError", "SMBOSError"}

\* `except Exception as e`: every exception the body can raise is caught.
Catches(e) == TRUE

\* The copy loop of upload_file and download_file: read chunk_size bytes at
\* a time until a read returns nothing, appending each chunk to dst.  The
\* k-th transfer call (the write of upload, the read of download) raises
\* when the fault names it.  Returns the bytes that reached dst, the running
\* total, the number of transfer calls, and whether the loop raised.
RECURSIVE CopyChunks(_, _, _, _, _, _)
\* Faulty variant of CopyChunks: `if` for `while`, only the first chunk is copied.
CopyChunks_once(src, pos, dst, k, fault, step) ==
    LET chunk == SubSeq(src, pos + 1, IF pos + chunk_size < Len(src)
                                      THEN pos + chunk_size ELSE Len(src))
    IN  IF step = "read" /\ Hits(fault, "read", k)
        THEN [dst |-> dst, total |-> Len(dst), calls |-> k, failed |-> TRUE]
        ELSE IF chunk = <<>>
        THEN [dst |-> dst, total |-> Len(dst),
              calls |-> IF step = "read" THEN k ELSE k - 1, failed |-> FALSE]
        ELSE IF step = "write" /\ Hits(fault, "write", k)
        THEN [dst |-> dst, total |-> Len(dst), calls |-> k, failed |-> TRUE]
        ELSE [dst |-> dst \o chunk, total |-> Len(dst \o chunk), calls |-> k,
              failed |-> FALSE]

CopyChunks(src, pos, dst, k, fault, step) ==
    LET chunk == SubSeq(src, pos + 1, IF pos + chunk_size < Len(src)
                                      THEN pos + chunk_size ELSE Len(src))
    IN  IF step = "read" /\ Hits(fault, "read", k)
        THEN [dst |-> dst, total |-> Len(dst), calls |-> k, failed |-> TRUE]
        ELSE IF chunk = <<>>
        THEN [dst |-> dst, total |-> Len(dst),
              calls |-> IF step = "read" THEN k ELSE k - 1, failed |-> FALSE]
        ELSE IF step = "write" /\ Hits(fault, "write", k)
        THEN [dst |-> dst, total |-> Len(dst), calls |-> k, failed |-> TRUE]
        ELSE CopyChunks(src, pos + Len(chunk), dst \o chunk, k + 1, fault, step)

\* n copies of a trace label.
Repeat(label, n) == [i \in 1..n |-> label]

\* Faulty variant of Handled: the error result carries no error key.
Handled_noerror(o, base) ==
    IF o.exc = {} THEN o
    ELSE [o EXCEPT !.ret = {base @@ [status |-> "error"]}, !.exc = {}]

\* The `except Exception as e: return {... 'error': str(e)}` handler shared by
\* the four public operations: base holds the keys the error result echoes.
Handled(o, base) ==
    IF o.exc = {} THEN o
    ELSE LET e == CHOOSE x \in o.exc : TRUE
         IN  IF Catches(e)
             THEN [o EXCEPT !.ret = {base @@ [status |-> "error", error |-> e.msg]},
                            !.exc = {}]
             ELSE o

\* -------------------------------------------------------- SMBFileService
\* The state a call works on: W = [lf, ld, rf, rd].

\* Faulty variant of _ensure_remote_dir: makedirs is called without the existence
\* check, and its "already exists" failure is swallowed like any other.
_ensure_remote_dir_nocheck(W, remote_dir_path, fault) ==
    LET key == RemoteKey(remote_dir_path)
    IN  IF Hits(fault, "makedirs", 1) \/ ~RemoteMakedirsOk(W.rf, W.rd, key)
        THEN Outcome({"None"}, {}, W.lf, W.ld, W.rf, W.rd,
                     <<"smb.makedirs">>, Hits(fault, "makedirs", 1))
        ELSE Outcome({"None"}, {}, W.lf, W.ld, W.rf, W.rd \cup RemoteChain(key),
                     <<"smb.makedirs">>, FALSE)

\* _ensure_remote_dir: whatever smbclient.path.exists or smbclient.makedirs
\* raises is logged as a warning and swallowed; the method returns None.
_ensure_remote_dir(W, remote_dir_path, fault) ==
    LET key == RemoteKey(remote_dir_path)
    IN  IF Hits(fault, "exists", 1) \/ ~RemoteValid(key)
        THEN Outcome({"None"}, {}, W.lf, W.ld, W.rf, W.rd,
                     <<"smb.exists">>, Hits(fault, "exists", 1))
        ELSE IF RemoteExists(W.rf, W.rd, key)
        THEN Outcome({"None"}, {}, W.lf, W.ld, W.rf, W.rd, <<"smb.exists">>, FALSE)
        ELSE IF Hits(fault, "makedirs", 1) \/ ~RemoteMakedirsOk(W.rf, W.rd, key)
        THEN Outcome({"None"}, {}, W.lf, W.ld, W.rf, W.rd,
                     <<"smb.exists", "smb.makedirs">>, Hits(fault, "makedirs", 1))
        ELSE Outcome({"None"}, {}, W.lf, W.ld, W.rf, W.rd \cup RemoteChain(key),
                     <<"smb.exists", "smb.makedirs">>, FALSE)

\* f"{self.server_url}/{remote_path.lstrip('/')}"
full_remote_path(server_url, remote_path) ==
    server_url \o <<"/">> \o lstrip(remote_path)

\* The try block of upload_file.
upload_try(W, server_url, local_path, remote_path, create_dirs, fault) ==
    LET full == full_remote_path(server_url, remote_path)
        key == RemoteKey(full)
        ens == IF create_dirs
               THEN _ensure_remote_dir(W, PathParent(full), fault)
               ELSE Outcome({"None"}, {}, W.lf, W.ld, W.rf, W.rd, <<>>, FALSE)
        t1 == <<"local.exists">> \o ens.trace \o <<"local.open_rb">>
        t2 == t1 \o <<"smb.open_wb">>
        copy == CopyChunks(W.lf[local_path], 0, <<>>, 1, fault, "write")
        t3 == t2 \o Repeat("smb.write", copy.calls)
        written == Put(W.rf, key, copy.dst)
    IN  IF ~LocalExists(W.lf, W.ld, local_path)
        THEN Outcome({}, Exc("FileNotFoundError", <<"Local file not found:">> \o local_path),
                     W.lf, W.ld, W.rf, W.rd, <<"local.exists">>, FALSE)
        ELSE IF local_path \notin DOMAIN W.lf
        THEN Outcome({}, Exc("IsADirectoryError", <<"Is a directory:">> \o local_path),
                     W.lf, W.ld, W.rf, ens.rd, t1, ens.fired)
        ELSE IF Hits(fault, "open_remote", 1)
        THEN Outcome({}, Exc("SMBException", fault.msg),
                     W.lf, W.ld, W.rf, ens.rd, t2, TRUE)
        ELSE IF ~RemoteOpenWriteOk(W.rf, ens.rd, key)
        THEN Outcome({}, Exc("SMBOSError", <<"No such file or directory:">> \o full),
                     W.lf, W.ld, W.rf, ens.rd, t2, ens.fired)
        ELSE IF copy.failed
        THEN Outcome({}, Exc("SMBException", fault.msg),
                     W.lf, W.ld, written, ens.rd, t3, TRUE)
        ELSE IF Hits(fault, "stat", 1)
        THEN Outcome({}, Exc("OSError", fault.msg),
                     W.lf, W.ld, written, ens.rd, t3 \o <<"local.stat">>, TRUE)
        ELSE Outcome({[status |-> "success", local_path |-> local_path,
                       remote_path |-> full, size_bytes |-> Len(W.lf[local_path]),
                       message |-> <<"File uploaded successfully">>]}, {},
                     W.lf, W.ld, written, ens.rd, t3 \o <<"local.stat">>, ens.fired)

upload_file(W, server_url, local_path, remote_path, create_dirs, fault) ==
    Handled(upload_try(W, server_url, local_path, remote_path, create_dirs, fault),
            [local_path |-> local_path, remote_path |-> remote_path])

\* Faulty variant of download_refused: the overwrite flag is ignored.
download_refused_never(W, local_path, overwrite) == FALSE

\* `if local_file.exists() and not overwrite: raise FileExistsError`
download_refused(W, local_path, overwrite) ==
    LocalExists(W.lf, W.ld, local_path) /\ ~overwrite

\* Faulty variant of download_try: the local file is opened for writing before the
\* remote file is looked up.
download_try_open_first(W, server_url, remote_path, local_path, overwrite, fault) ==
    LET parent == LocalParent(local_path)
        ld1 == W.ld \cup LocalPrefixes(parent)
        full == full_remote_path(server_url, remote_path)
        key == RemoteKey(full)
        t1 == <<"local.exists", "local.mkdir">>
        t2 == t1 \o <<"smb.exists">>
        t3 == t2 \o <<"smb.open_rb">>
        t4 == t3 \o <<"local.open_wb">>
        copy == CopyChunks(W.rf[key], 0, <<>>, 1, fault, "read")
        t5 == t4 \o Repeat("smb.read", copy.calls)
        written == Put(W.lf, local_path, copy.dst)
    IN  IF download_refused(W, local_path, overwrite)
        THEN Outcome({}, Exc("FileExistsError",
                             <<"Local file exists and overwrite=False:">> \o local_path),
                     W.lf, W.ld, W.rf, W.rd, <<"local.exists">>, FALSE)
        ELSE IF ~LocalMkdirOk(W.lf, parent)
        THEN Outcome({}, Exc("FileExistsError", <<"File exists:">> \o parent),
                     W.lf, W.ld, W.rf, W.rd, t1, FALSE)
        ELSE IF Hits(fault, "exists", 1)
        THEN Outcome({}, Exc("SMBException", fault.msg),
                     W.lf, ld1, W.rf, W.rd, t2, TRUE)
        ELSE IF ~RemoteValid(key)
        THEN Outcome({}, Exc("ValueError", <<"The SMB path must contain the server and share">>),
                     W.lf, ld1, W.rf, W.rd, t2, FALSE)
        ELSE IF ~RemoteExists(W.rf, W.rd, key)
        THEN Outcome({}, Exc("FileNotFoundError", <<"Remote file not found:">> \o full),
                     IF LocalIsDir(ld1, local_path) THEN W.lf
                     ELSE Put(W.lf, local_path, <<>>),
                     ld1, W.rf, W.rd, <<"local.exists", "local.mkdir", "local.open_wb", "smb.exists">>, FALSE)
        ELSE IF Hits(fault, "open_remote", 1)
        THEN Outcome({}, Exc("SMBException", fault.msg),
                     W.lf, ld1, W.rf, W.rd, t3, TRUE)
        ELSE IF key \notin DOMAIN W.rf
        THEN Outcome({}, Exc("SMBOSError", <<"Is a directory:">> \o full),
                     W.lf, ld1, W.rf, W.rd, t3, FALSE)
        ELSE IF LocalIsDir(ld1, local_path)
        THEN Outcome({}, Exc("IsADirectoryError", <<"Is a directory:">> \o local_path),
                     W.lf, ld1, W.rf, W.rd, t4, FALSE)
        ELSE IF copy.failed
        THEN Outcome({}, Exc("SMBException", fault.msg),
                     written, ld1, W.rf, W.rd, t5, TRUE)
        ELSE Outcome({[status |-> "success", remote_path |-> full,
                       local_path |-> local_path, size_bytes |-> copy.total,
                       message |-> <<"File downloaded successfully">>]}, {},
                     written, ld1, W.rf, W.rd, t5, FALSE)

\* The try block of download_file.
download_try(W, server_url, remote_path, local_path, overwrite, fault) ==
    LET parent == LocalParent(local_path)
        ld1 == W.ld \cup LocalPrefixes(parent)
        full == full_remote_path(server_url, remote_path)
        key == RemoteKey(full)
        t1 == <<"local.exists", "local.mkdir">>
        t2 == t1 \o <<"smb.exists">>
        t3 == t2 \o <<"smb.open_rb">>
        t4 == t3 \o <<"local.open_wb">>
        copy == CopyChunks(W.rf[key], 0, <<>>, 1, fault, "read")
        t5 == t4 \o Repeat("smb.read", copy.calls)
        written == Put(W.lf, local_path, copy.dst)
    IN  IF download_refused(W, local_path, overwrite)
        THEN Outcome({}, Exc("FileExistsError",
                             <<"Local file exists and overwrite=False:">> \o local_path),
                     W.lf, W.ld, W.rf, W.rd, <<"local.exists">>, FALSE)
        ELSE IF ~LocalMkdirOk(W.lf, parent)
        THEN Outcome({}, Exc("FileExistsError", <<"File exists:">> \o parent),
                     W.lf, W.ld, W.rf, W.rd, t1, FALSE)
        ELSE IF Hits(fault, "exists", 1)
        THEN Outcome({}, Exc("SMBException", fault.msg),
                     W.lf, ld1, W.rf, W.rd, t2, TRUE)
        ELSE IF ~RemoteValid(key)
        THEN Outcome({}, Exc("ValueError", <<"The SMB path must contain the server and share">>),
                     W.lf, ld1, W.rf, W.rd, t2, FALSE)
        ELSE IF ~RemoteExists(W.rf, W.rd, key)
        THEN Outcome({}, Exc("FileNotFoundError", <<"Remote file not found:">> \o full),
                     W.lf, ld1, W.rf, W.rd, t2, FALSE)
        ELSE IF Hits(fault, "open_remote", 1)
        THEN Outcome({}, Exc("SMBException", fault.msg),
                     W.lf, ld1, W.rf, W.rd, t3, TRUE)
        ELSE IF key \notin DOMAIN W.rf
        THEN Outcome({}, Exc("SMBOSError", <<"Is a directory:">> \o full),
                     W.lf, ld1, W.rf, W.rd, t3, FALSE)
        ELSE IF LocalIsDir(ld1, local_path)
        THEN Outcome({}, Exc("IsADirectoryError", <<"Is a directory:">> \o local_path),
                     W.lf, ld1, W.rf, W.rd, t4, FALSE)
        ELSE IF copy.failed
        THEN Outcome({}, Exc("SMBException", fault.msg),
                     written, ld1, W.rf, W.rd, t5, TRUE)
        ELSE Outcome({[status |-> "success", remote_path |-> full,
                       local_path |-> local_path, size_bytes |-> copy.total,
                       message |-> <<"File downloaded successfully">>]}, {},
                     written, ld1, W.rf, W.rd, t5, FALSE)

download_file(W, server_url, remote_path, local_path, overwrite, fault) ==
    Handled(download_try(W, server_url, remote_path, local_path, overwrite, fault),
            [remote_path |-> remote_path, local_path |-> local_path])

\* The directory entry list_files appends for one child: bad says which of
\* smbclient.stat and smbclient.path.isdir raises for it ("ok" for neither);
\* either failure is caught by the inner handler.
list_entry(W, full, entry, bad, msg) ==
    LET key == RemoteKey(full \o <<"/">> \o entry)
    IN  IF bad \in {"stat", "isdir"}
        THEN [name |-> entry, error |-> msg]
        ELSE [name |-> entry,
              size |-> IF key \in DOMAIN W.rf THEN Len(W.rf[key]) ELSE 0,
              is_dir |-> key \in W.rd,
              modified |-> 0]

\* Faulty variant of list_files_try: without the inner handler a failing stat
\* aborts the whole listing.
list_files_try_abort(W, server_url, remote_path, fault, bad) ==
    LET full == full_remote_path(server_url, remote_path)
        key == RemoteKey(full)
        entries == SetToSeq(RemoteChildren(W.rf, W.rd, key))
        files == [i \in 1..Len(entries) |-> list_entry(W, full, entries[i], bad[i], fault.msg)]
    IN  IF Hits(fault, "listdir", 1)
        THEN Outcome({}, Exc("SMBException", fault.msg),
                     W.lf, W.ld, W.rf, W.rd, <<"smb.listdir">>, TRUE)
        ELSE IF ~RemoteValid(key) \/ ~RemoteIsDir(W.rd, key)
        THEN Outcome({}, Exc("SMBOSError", <<"Not a directory:">> \o full),
                     W.lf, W.ld, W.rf, W.rd, <<"smb.listdir">>, FALSE)
        ELSE IF \E i \in DOMAIN bad : bad[i] # "ok"
        THEN Outcome({}, Exc("SMBException", fault.msg),
                     W.lf, W.ld, W.rf, W.rd, <<"smb.listdir", "smb.stat">>, TRUE)
        ELSE Outcome({[status |-> "success", path |-> full, files |-> files,
                       count |-> Len(files)]}, {},
                     W.lf, W.ld, W.rf, W.rd,
                     <<"smb.listdir">> \o Repeat("smb.stat", Len(entries)), FALSE)

\* The try block of list_files; bad[i] is the failure of the i-th child.
list_files_try(W, server_url, remote_path, fault, bad) ==
    LET full == full_remote_path(server_url, remote_path)
        key == RemoteKey(full)
        entries == SetToSeq(RemoteChildren(W.rf, W.rd, key))
        files == [i \in 1..Len(entries) |-> list_entry(W, full, entries[i], bad[i], fault.msg)]
    IN  IF Hits(fault, "listdir", 1)
        THEN Outcome({}, Exc("SMBException", fault.msg),
                     W.lf, W.ld, W.rf, W.rd, <<"smb.listdir">>, TRUE)
        ELSE IF ~RemoteValid(key) \/ ~RemoteIsDir(W.rd, key)
        THEN Outcome({}, Exc("SMBOSError", <<"Not a directory:">> \o full),
                     W.lf, W.ld, W.rf, W.rd, <<"smb.listdir">>, FALSE)
        ELSE Outcome({[status |-> "success", path |-> full, files |-> files,
                       count |-> Len(files)]}, {},
                     W.lf, W.ld, W.rf, W.rd,
                     <<"smb.listdir">> \o Repeat("smb.stat", Len(entries)),
                     \E i \in DOMAIN bad : bad[i] # "ok")

list_files(W, server_url, remote_path, fault, bad) ==
    Handled(list_files_try(W, server_url, remote_path, fault, bad),
            [path |-> remote_path])

\* The try block of test_connection: list the share root; found is the
\* len(result) the message reports.
test_connection_try(W, config, server_url, fault) ==
    LET key == RemoteKey(server_url)
    IN  IF Hits(fault, "listdir", 1)
        THEN Outcome({}, Exc("SMBException", fault.msg),
                     W.lf, W.ld, W.rf, W.rd, <<"smb.listdir">>, TRUE)
        ELSE IF ~RemoteValid(key) \/ ~RemoteIsDir(W.rd, key)
        THEN Outcome({}, Exc("SMBOSError", <<"Not a directory:">> \o server_url),
                     W.lf, W.ld, W.rf, W.rd, <<"smb.listdir">>, FALSE)
        ELSE Outcome({[status |-> "success", server |-> config.server,
                       share |-> config.share, signing_required |-> TRUE,
                       connection |-> "active",
                       message |-> <<"Connected successfully. Found {n} items in root.">>,
                       found |-> Cardinality(RemoteChildren(W.rf, W.rd, key))]}, {},
                     W.lf, W.ld, W.rf, W.rd, <<"smb.listdir">>, FALSE)

test_connection(W, config, server_url, fault) ==
    Handled(test_connection_try(W, config, server_url, fault),
            [server |-> config.server, share |-> config.share])

\* ------------------------------------------------------------------ inputs
\* The file contents the runs start from: the prefixes of x y x y ...
Pattern == [i \in 1..MaxLen |-> IF i % 2 = 1 THEN "x" ELSE "y"]

Contents == {SubSeq(Pattern, 1, n) : n \in 0..MaxLen}

\* The value a configuration field takes when it is set and not empty.
FieldValue(f) ==
    CASE f = "server" -> <<"h">>
      [] f = "share" -> <<"s">>
      [] f = "username" -> <<"u">>
      [] f = "password" -> <<"p">>

\* Dicts over the keys of val: each key absent, empty, or carrying val[key].
Dicts(val) ==
    UNION {{d \in [D -> {<<>>} \cup {val[k] : k \in D}] :
              \A k \in D : d[k] \in {<<>>, val[k]}} : D \in SUBSET DOMAIN val}

EnvValue(n) ==
    CASE n = "SMB_SERVER" -> <<"h">>
      [] n = "SMB_SHARE" -> <<"s">>
      [] n = "SMB_USERNAME" -> <<"u">>
      [] n = "SMB_PASSWORD" -> <<"p">>
      [] n = "SMB_PORT" -> <<"4", "4", "5">>
      [] n = "SMB_TIMEOUT" -> <<"3", "0">>

\* Environments: every variable unset, empty or set; an empty SMB_PORT or
\* SMB_TIMEOUT is the malformed number.
EnvInputs ==
    Dicts([n \in {EnvName(f) : f \in RequiredFieldSet \cup {"port", "timeout"}}
             |-> EnvValue(n)])

\* JSON objects of a configuration file, and argparse namespaces.
FieldInputs == Dicts([f \in RequiredFieldSet |-> FieldValue(f)])

\* Local paths: src is a file, new/dst is absent and so is its directory.
UploadLocalInputs == {<<"src">>, <<"new">>}

DownloadLocalInputs == {<<"new", "dst">>, <<"src", "x">>}

\* Remote paths as the callers give them: '//d/a', '/d', 'd', 'b' and ''.
UploadRemoteInputs == {<<"/", "/", "d", "/", "a">>, <<>>}

DownloadRemoteInputs == {<<"/", "/", "d", "/", "a">>, <<"b">>, <<"d">>}

ListRemoteInputs == {<<>>, <<"/", "d">>, <<"b">>}

EnsureRemoteInputs == {<<"d">>, <<>>}

\* The file the share holds when the runs start.
SeedKey == ShareRoot \o <<<<"b">>>>

SeedContent == <<"y", "x">>

\* ------------------------------------------------------------------- state
VARIABLES
    phase,       \* "start", "loaded" (a configuration is held), "ready"
                 \* (SMBFileService constructed), "exit" (startup aborted)
    config,      \* the SMBConfig held, {} while there is none
    server_url,  \* SMBFileService.server_url
    lf, ld,      \* the local filesystem: files and directories
    rf, rd,      \* the share: files and directories
    uploaded,    \* per remote file: the local bytes and reported size of the
                 \* last successful upload_file not overwritten since
    lastCall,    \* the latest call made directly on the service or a
                 \* loader: operation, arguments, injected fault, value
                 \* returned, exception propagated, calls made
    inflight,    \* smb_api: per worker thread, the request it is handling
                 \* and how far its handler has come
    response     \* smb_api: the latest response sent, with the request it
                 \* answers and the service calls its handler made

vars == <<phase, config, server_url, lf, ld, rf, rd, uploaded, lastCall,
          inflight, response>>

\* The worker threads of the REST gateway that handle requests at once.
Workers == {1, 2}

\* A worker that is handling no request.
Idle == [pc |-> "idle"]

\* No response has been sent yet.
NoResponse == [route |-> "none"]

World == [lf |-> lf, ld |-> ld, rf |-> rf, rd |-> rd]

Call(op, args, fault, o) ==
    [op |-> op, args |-> args, fault |-> fault, ret |-> o.ret, exc |-> o.exc,
     trace |-> o.trace]

NoArgs == [none |-> TRUE]

\* The files a run starts from: the local file src holds c, the share holds
\* the seed file, and no call has been made.
InitFiles(c) ==
    /\ lf = (<<"src">> :> c)
    /\ ld = {}
    /\ rf = (SeedKey :> SeedContent)
    /\ rd = {}
    /\ uploaded = <<>>
    /\ lastCall = [op |-> "none", args |-> NoArgs, fault |-> NoFault, ret |-> {},
                   exc |-> {}, trace |-> <<>>]
    /\ inflight = [w \in Workers |-> Idle]
    /\ response = NoResponse

\* The configuration of a deployment whose four required settings are set.
ValidConfig ==
    SMBConfig(FieldValue("server"), FieldValue("share"), FieldValue("username"),
              FieldValue("password"), 445, 30)

\* The state after SMBFileService(ValidConfig) has been constructed.
Init ==
    /\ phase = "ready"
    /\ config = {ValidConfig}
    /\ server_url = <<"/", "/">> \o ValidConfig.server \o <<"/">> \o ValidConfig.share
    /\ \E c \in Contents : InitFiles(c)

\* The state at process start, before any configuration is loaded.
StartInit ==
    /\ phase = "start"
    /\ config = {}
    /\ server_url = <<>>
    /\ InitFiles(Pattern)

\* ----------------------------------------------------------------- startup
\* A loader ran: its configuration is kept, or its exception ends startup.
LoadStep(op, args, o) ==
    /\ phase' = IF o.ok THEN "loaded" ELSE "exit"
    /\ config' = o.config
    /\ lastCall' = Call(op, args, NoFault,
                        [ret |-> o.config, exc |-> o.exc, trace |-> <<>>])
    /\ UNCHANGED <<server_url, lf, ld, rf, rd, uploaded, inflight, response>>

LoadConfigFromEnv ==
    /\ phase = "start"
    /\ \E env \in EnvInputs :
        LoadStep("load_config_from_env", [env |-> env], load_config_from_env(env))

LoadConfigFromFile ==
    /\ phase = "start"
    /\ \E readable \in BOOLEAN, data \in FieldInputs :
        /\ ~readable => data = <<>>
        /\ LoadStep("load_config_from_file", [readable |-> readable, data |-> data],
                    load_config_from_file(readable, data))

LoadConfigFromArgs ==
    /\ phase = "start"
    /\ \E args \in FieldInputs :
        LoadStep("load_config_from_args", [args |-> args], load_config_from_args(args))

\* SMBFileService.__init__: server_url is derived from the configuration and
\* the session is registered; a failure of register_session is re-raised and
\* startup is aborted.
Construct ==
    /\ phase = "loaded"
    /\ \E registered \in BOOLEAN :
        LET cfg == CHOOSE c \in config : TRUE
        IN  /\ phase' = IF registered THEN "ready" ELSE "exit"
            /\ server_url' = <<"/", "/">> \o cfg.server \o <<"/">> \o cfg.share
            /\ lastCall' = Call("__init__", NoArgs, NoFault,
                                [ret |-> {}, trace |-> <<"smb.register_session">>,
                                 exc |-> IF registered THEN {}
                                         ELSE Exc("SMBException", <<"smb failure">>)])
    /\ UNCHANGED <<config, lf, ld, rf, rd, uploaded, inflight, response>>

\* -------------------------------------------------------------- operations
\* f without key k.
Drop(f, k) == [x \in DOMAIN f \ {k} |-> f[x]]

\* A call of a method of the constructed service ran to its end: its effects
\* on both filesystems are in place and its record replaces the last one.  A
\* fault is injected only where the call reaches it.
ServiceStep(op, args, fault, o) ==
    /\ fault = NoFault \/ o.fired
    /\ lf' = o.lf
    /\ ld' = o.ld
    /\ rf' = o.rf
    /\ rd' = o.rd
    /\ lastCall' = Call(op, args, fault, o)
    /\ UNCHANGED <<phase, config, server_url, inflight, response>>

UploadFaults ==
    {NoFault} \cup Fault("exists", 1) \cup Fault("makedirs", 1)
      \cup Fault("open_remote", 1) \cup SilentFault("open_remote", 1)
      \cup Fault("stat", 1)
      \cup UNION {Fault("write", k) : k \in 1..MaxLen}

UploadFile ==
    /\ phase = "ready"
    /\ \E local_path \in UploadLocalInputs, remote_path \in UploadRemoteInputs,
          create_dirs \in BOOLEAN, fault \in UploadFaults :
        LET o == upload_file(World, server_url, local_path, remote_path,
                             create_dirs, fault)
            key == RemoteKey(full_remote_path(server_url, remote_path))
            ok == \E r \in o.ret : r.status = "success"
        IN  /\ ServiceStep("upload_file",
                           [local_path |-> local_path, remote_path |-> remote_path,
                            create_dirs |-> create_dirs], fault, o)
            /\ uploaded' = IF ok
                           THEN Put(uploaded, key,
                                    [content |-> lf[local_path],
                                     size_bytes |-> (CHOOSE r \in o.ret : TRUE).size_bytes])
                           ELSE IF o.rf # rf THEN Drop(uploaded, key)
                           ELSE uploaded

DownloadFaults ==
    {NoFault} \cup Fault("exists", 1) \cup SilentFault("exists", 1)
      \cup Fault("open_remote", 1)
      \cup UNION {Fault("read", k) : k \in 1..(MaxLen + 1)}

DownloadFile ==
    /\ phase = "ready"
    /\ \E remote_path \in DownloadRemoteInputs, local_path \in DownloadLocalInputs,
          overwrite \in BOOLEAN, fault \in DownloadFaults :
        ServiceStep("download_file",
                    [remote_path |-> remote_path, local_path |-> local_path,
                     overwrite |-> overwrite], fault,
                    download_file(World, server_url, remote_path, local_path,
                                  overwrite, fault))
    /\ UNCHANGED uploaded

\* The per-child failures of one listing: none, or some children fail with
\* the message of the injected exception.
ListFiles ==
    /\ phase = "ready"
    /\ \E remote_path \in ListRemoteInputs :
        LET key == RemoteKey(full_remote_path(server_url, remote_path))
            n == Cardinality(RemoteChildren(rf, rd, key))
        IN  \E bad \in [1..n -> {"ok", "stat", "isdir"}],
               fault \in {NoFault} \cup Fault("listdir", 1) \cup SilentFault("listdir", 1)
                          \cup Fault("entry", 0) :
              /\ fault.step = "entry" <=> \E i \in 1..n : bad[i] # "ok"
              /\ ServiceStep("list_files", [remote_path |-> remote_path, bad |-> bad],
                             fault,
                             list_files(World, server_url, remote_path, fault, bad))
    /\ UNCHANGED uploaded

TestConnection ==
    /\ phase = "ready"
    /\ \E fault \in {NoFault} \cup Fault("listdir", 1) \cup SilentFault("listdir", 1) :
        ServiceStep("test_connection", NoArgs, fault,
                    test_connection(World, CHOOSE c \in config : TRUE,
                                    server_url, fault))
    /\ UNCHANGED uploaded

\* A direct call of _ensure_remote_dir, as smb_api.create_directory makes it.
EnsureRemoteDir ==
    /\ phase = "ready"
    /\ \E remote_path \in EnsureRemoteInputs,
          fault \in {NoFault} \cup Fault("exists", 1) \cup Fault("makedirs", 1) :
        ServiceStep("_ensure_remote_dir",
                    [remote_dir_path |-> full_remote_path(server_url, remote_path)],
                    fault,
                    _ensure_remote_dir(World, full_remote_path(server_url, remote_path),
                                       fault))
    /\ UNCHANGED uploaded

Next ==
    \/ UploadFile
    \/ DownloadFile
    \/ ListFiles
    \/ TestConnection
    \/ EnsureRemoteDir

Spec == Init /\ [][Next]_vars

\* Startup followed by the service's calls.
StartNext ==
    \/ LoadConfigFromEnv
    \/ LoadConfigFromFile
    \/ LoadConfigFromArgs
    \/ Construct
    \/ Next

StartSpec == StartInit /\ [][StartNext]_vars

\* ------------------------------------------------- smb_api: library calls
\* ord() of a byte of the model's files, and its inverse.
ord(c) == CASE c = "x" -> 120 [] c = "y" -> 121

chr(v) == CASE v = 120 -> "x" [] v = 121 -> "y" [] OTHER -> "?"

B64Alphabet ==
    <<"A", "B", "C", "D", "E", "F", "G", "H", "I", "J", "K", "L", "M",
      "N", "O", "P", "Q", "R", "S", "T", "U", "V", "W", "X", "Y", "Z",
      "a", "b", "c", "d", "e", "f", "g", "h", "i", "j", "k", "l", "m",
      "n", "o", "p", "q", "r", "s", "t", "u", "v", "w", "x", "y", "z",
      "0", "1", "2", "3", "4", "5", "6", "7", "8", "9", "+", "/">>

B64Chars == {B64Alphabet[i] : i \in 1..64}

B64Index(c) == (CHOOSE i \in 1..64 : B64Alphabet[i] = c) - 1

\* base64.b64encode(data).decode('utf-8'): three bytes become four
\* characters, a shorter last group is padded with '='.
RECURSIVE b64encode(_)
b64encode(data) ==
    IF data = <<>> THEN <<>>
    ELSE LET n == IF Len(data) < 3 THEN Len(data) ELSE 3
             b1 == ord(data[1])
             b2 == IF n >= 2 THEN ord(data[2]) ELSE 0
             b3 == IF n >= 3 THEN ord(data[3]) ELSE 0
             v == b1 * 65536 + b2 * 256 + b3
         IN  <<B64Alphabet[(v \div 262144) + 1],
               B64Alphabet[((v \div 4096) % 64) + 1],
               IF n >= 2 THEN B64Alphabet[((v \div 64) % 64) + 1] ELSE "=",
               IF n >= 3 THEN B64Alphabet[(v % 64) + 1] ELSE "=">>
             \o b64encode(SubSeq(data, n + 1, Len(data)))

\* The bytes of a run of base64 digits: four digits give three bytes, a
\* last group of two gives one byte and of three gives two.
RECURSIVE B64Bytes(_)
B64Bytes(d) ==
    IF Len(d) < 2 THEN <<>>
    ELSE LET s1 == B64Index(d[1])
             s2 == B64Index(d[2])
             s3 == IF Len(d) >= 3 THEN B64Index(d[3]) ELSE 0
             s4 == IF Len(d) >= 4 THEN B64Index(d[4]) ELSE 0
             v == s1 * 262144 + s2 * 4096 + s3 * 64 + s4
             three == <<chr(v \div 65536), chr((v \div 256) % 256), chr(v % 256)>>
         IN  IF Len(d) >= 4 THEN three \o B64Bytes(SubSeq(d, 5, Len(d)))
             ELSE SubSeq(three, 1, Len(d) - 1)

\* base64.b64decode(text): characters outside the alphabet are discarded;
\* binascii.Error('Incorrect padding') unless the digits fill whole groups
\* of four or the last group is completed by '=' signs.  text carries its
\* '=' signs at the end.
b64decode(text) ==
    LET digits == SelectSeq(text, LAMBDA c : c \in B64Chars)
        pads == Len(SelectSeq(text, LAMBDA c : c = "="))
        ok == \/ Len(digits) % 4 = 0
              \/ Len(digits) % 4 = 2 /\ pads >= 2
              \/ Len(digits) % 4 = 3 /\ pads >= 1
    IN  IF ok THEN [ok |-> TRUE, data |-> B64Bytes(digits), error |-> <<>>]
        ELSE [ok |-> FALSE, data |-> <<>>, error |-> <<"Incorrect padding">>]

\* "_".join(parts)
RECURSIVE JoinUnderscore(_)
JoinUnderscore(parts) ==
    IF parts = <<>> THEN <<>>
    ELSE IF Len(parts) = 1 THEN parts[1]
    ELSE parts[1] \o <<"_">> \o JoinUnderscore(Tail(parts))

\* str.strip("._")
RECURSIVE strip_dots(_)
strip_dots(s) ==
    IF s = <<>> THEN s
    ELSE IF Head(s) \in {".", "_"} THEN strip_dots(Tail(s))
    ELSE IF s[Len(s)] \in {".", "_"} THEN strip_dots(SubSeq(s, 1, Len(s) - 1))
    ELSE s

\* werkzeug.utils.secure_filename: path separators become blanks, the words
\* are joined by '_', leading and trailing dots and underscores are dropped.
secure_filename(filename) == strip_dots(JoinUnderscore(Components(filename)))

\* Path(remote_path).name: the last component, '' when there is none.
PathName(s) ==
    IF Components(s) = <<>> THEN <<>> ELSE Components(s)[Len(Components(s))]

\* ------------------------------------------------------ smb_api: the routes
\* A request is a record of what the handler reads from flask.request:
\* method, args (the query string), json (the body parsed as a JSON object,
\* {} when the body is not JSON), file (the multipart part named 'file')
\* and form.  JSON values are strings and booleans.  strict says what
\* request.get_json() does with a body that is not JSON: it raises a 415
\* error (Flask 2.1 and later) or returns None (before).

\* dict.get(key, default)
Get(d, key, default) == IF key \in DOMAIN d THEN d[key] ELSE default

\* str.lower() over the letters the requests use.
lower(s) == [i \in DOMAIN s |-> IF s[i] = "T" THEN "t" ELSE s[i]]

StrTrue == <<"t", "r", "u", "e">>

\* `jsonify(body), code`; file is the path send_file streams instead.
Reply(code, body) == [code |-> code, body |-> {body}, file |-> {}]

ErrorBody(msg) == [status |-> "error", error |-> msg]

\* What a handler leaves behind: its reply, both filesystems, the scratch
\* file it created, the service operations it invoked, the result record
\* the service returned and the library calls it made, and whether the
\* injected fault was reached.
Handling(reply, W, temp, calls, result, trace, fired) ==
    [reply |-> reply, lf |-> W.lf, ld |-> W.ld, rf |-> W.rf, rd |-> W.rd,
     temp |-> temp, calls |-> calls, result |-> result, trace |-> trace,
     fired |-> fired]

\* A handler that replies without touching the service or the disk.
Early(reply, W) == Handling(reply, W, {}, <<>>, {}, <<>>, FALSE)

\* The world an outcome of the service leaves.
After(o) == [lf |-> o.lf, ld |-> o.ld, rf |-> o.rf, rd |-> o.rd]

\* Faulty variant of NotInitialized: 503 Service Unavailable with another text.
NotInitialized_unavailable ==
    Reply(503, ErrorBody(<<"Service unavailable">>))

\* The wrapper of require_smb_service: the reply while smb_service is None.
NotInitialized ==
    Reply(500, ErrorBody(<<"SMB service not initialized">>))

\* health_check carries no require_smb_service decorator.
health_check(initialized) ==
    Reply(200, [status |-> "healthy", service |-> "SMB REST API",
                timestamp |-> 0, smb_initialized |-> initialized])

\* Faulty variant of Rendered: every result of the service is sent with 200.
Rendered_always200(o) ==
    IF o.exc # {}
    THEN Reply(500, ErrorBody((CHOOSE e \in o.exc : TRUE).msg))
    ELSE Reply(200, CHOOSE r \in o.ret : TRUE)

\* `status_code = 200 if result['status'] == 'success' else 400;
\* return jsonify(result), status_code`, and the route's own
\* `except Exception as e` for a call of the service that raised.
Rendered(o) ==
    IF o.exc # {}
    THEN Reply(500, ErrorBody((CHOOSE e \in o.exc : TRUE).msg))
    ELSE LET result == CHOOSE r \in o.ret : TRUE
         IN  Reply(IF result.status = "success" THEN 200 ELSE 400, result)

\* GET /smb/test
api_test_connection(W, cfg, url, fault) ==
    LET o == test_connection(W, cfg, url, fault)
    IN  Handling(Rendered(o), After(o), {}, <<"test_connection">>, o.ret, o.trace, o.fired)

\* GET /smb/files
api_list_files(req, W, url, fault, bad) ==
    LET remote_path == Get(req.args, "path", <<>>)
        o == list_files(W, url, remote_path, fault, bad)
    IN  Handling(Rendered(o), After(o), {}, <<"list_files">>, o.ret, o.trace, o.fired)

\* The body request.get_json() hands to a POST handler, or the exception it
\* raises; `if not data or 'remote_path' not in data` follows.
JsonMissing(req) ==
    req.json = {} \/ "remote_path" \notin DOMAIN (CHOOSE d \in req.json : TRUE)

UnsupportedMediaType ==
    Reply(500, ErrorBody(<<"415 Unsupported Media Type">>))

RemotePathRequired == Reply(400, ErrorBody(<<"remote_path is required">>))

RemotePathParameterRequired ==
    Reply(400, ErrorBody(<<"remote_path parameter is required">>))

\* Faulty variant of delete_file: the path is removed from the share.
delete_file_removes(req, W) ==
    LET path == IF req.method = "DELETE" THEN Get(req.args, "path", <<>>)
                ELSE (CHOOSE d \in req.json : TRUE).remote_path
        key == ShareRoot \o Components(path)
    IN  IF req.method # "DELETE" /\ req.json = {} /\ req.strict
        THEN Early(UnsupportedMediaType, W)
        ELSE IF req.method # "DELETE" /\ JsonMissing(req)
        THEN Early(RemotePathRequired, W)
        ELSE IF path = <<>>
        THEN Early(RemotePathParameterRequired, W)
        ELSE Early(Reply(200, [status |-> "success"]),
                   [W EXCEPT !.rf = [k \in DOMAIN W.rf \ {key} |-> W.rf[k]]])

\* DELETE or POST /smb/delete
delete_file(req, W) ==
    LET path == IF req.method = "DELETE" THEN Get(req.args, "path", <<>>)
                ELSE (CHOOSE d \in req.json : TRUE).remote_path
    IN  IF req.method # "DELETE" /\ req.json = {} /\ req.strict
        THEN Early(UnsupportedMediaType, W)
        ELSE IF req.method # "DELETE" /\ JsonMissing(req)
        THEN Early(RemotePathRequired, W)
        ELSE IF path = <<>>
        THEN Early(RemotePathParameterRequired, W)
        ELSE Early(Reply(501, ErrorBody(
                 <<"Delete functionality not yet implemented in SMB service">>)), W)

\* Faulty variant of create_directory: the reply tells whether the directory
\* exists after the call.
create_directory_checked(req, W, url, fault) ==
    LET data == CHOOSE d \in req.json : TRUE
        full == full_remote_path(url, data.remote_path)
        o == _ensure_remote_dir(W, full, fault)
    IN  IF req.json = {} /\ req.strict
        THEN Early(UnsupportedMediaType, W)
        ELSE IF JsonMissing(req)
        THEN Early(RemotePathRequired, W)
        ELSE Handling(IF RemoteIsDir(o.rd, RemoteKey(full))
                      THEN Reply(200, [status |-> "success", remote_path |-> full,
                                       message |-> <<"Directory created successfully">>])
                      ELSE Reply(400, ErrorBody(<<"Directory not created">>)),
                      After(o), {}, <<"_ensure_remote_dir">>, {}, o.trace, o.fired)

\* POST /smb/mkdir
create_directory(req, W, url, fault) ==
    LET data == CHOOSE d \in req.json : TRUE
        full == full_remote_path(url, data.remote_path)
        o == _ensure_remote_dir(W, full, fault)
    IN  IF req.json = {} /\ req.strict
        THEN Early(UnsupportedMediaType, W)
        ELSE IF JsonMissing(req)
        THEN Early(RemotePathRequired, W)
        ELSE Handling(Reply(200, [status |-> "success", remote_path |-> full,
                                  message |-> <<"Directory created successfully">>]),
                      After(o), {}, <<"_ensure_remote_dir">>, {}, o.trace, o.fired)

\* The names tempfile.NamedTemporaryFile can give a scratch file; they lie in
\* the temporary directory, which exists and holds nothing else.
ScratchNames == {<<"tmp1">>, <<"tmp2">>}

\* Faulty variant of FreeScratch: a fixed name, taken whether or not it is in use.
FreeScratch_fixed(files) == {<<"tmp1">>}

\* NamedTemporaryFile creates its file with O_CREAT | O_EXCL: the name it
\* returns is one no existing file has.
FreeScratch(files) == {t \in ScratchNames : t \notin DOMAIN files}

\* POST /smb/upload up to `# Save file temporarily`: the payload, the remote
\* path and create_dirs, or the 400 reply that ends the request.
upload_parse(req) ==
    LET file == CHOOSE f \in req.file : TRUE
        data == CHOOSE d \in req.json : TRUE
        dec == b64decode(data.file_data)
        Parsed(file_data, filename, fields, create_dirs) ==
            [ok |-> TRUE, reply |-> {}, file_data |-> file_data,
             remote_path |-> Get(fields, "remote_path", filename),
             create_dirs |-> create_dirs]
        Refused(msg) ==
            [ok |-> FALSE, reply |-> {Reply(400, ErrorBody(msg))}, file_data |-> <<>>,
             remote_path |-> <<>>, create_dirs |-> FALSE]
    IN  IF req.file # {}
        THEN IF file.filename = <<>>
             THEN Refused(<<"No file selected">>)
             ELSE Parsed(file.data, secure_filename(file.filename), req.form,
                         lower(Get(req.form, "create_dirs", StrTrue)) = StrTrue)
        ELSE IF req.json # {}
        THEN IF "file_data" \notin DOMAIN data \/ "filename" \notin DOMAIN data
             THEN Refused(<<"JSON upload requires file_data (base64) and filename fields">>)
             ELSE IF ~dec.ok
             THEN Refused(<<"Invalid base64 data:">> \o dec.error)
             ELSE Parsed(dec.data, secure_filename(data.filename), data,
                         Get(data, "create_dirs", TRUE))
        ELSE Refused(<<"No file data provided">>)

\* `with tempfile.NamedTemporaryFile(delete=False) as temp_file:
\*      temp_file.write(file_data)`
upload_save(W, temp, file_data) == [W EXCEPT !.lf = Put(W.lf, temp, file_data)]

\* The `finally` of upload_file: os.unlink(temp_path).
upload_cleanup(files, temp) == Drop(files, temp)

\* POST /smb/upload, from the request to the reply.
api_upload_file(req, W, url, temp, fault) ==
    LET p == upload_parse(req)
        o == upload_file(upload_save(W, temp, p.file_data), url, temp,
                         p.remote_path, p.create_dirs, fault)
    IN  IF ~p.ok THEN Early(CHOOSE r \in p.reply : TRUE, W)
        ELSE Handling(Rendered(o),
                      [After(o) EXCEPT !.lf = upload_cleanup(o.lf, temp)],
                      {temp}, <<"upload_file">>, o.ret, o.trace, o.fired)

\* GET or POST /smb/download up to `# Create temporary file for download`.
download_parse(req) ==
    LET data == CHOOSE d \in req.json : TRUE
        Parsed(remote_path, return_file) ==
            IF remote_path = <<>>
            THEN [ok |-> FALSE, reply |-> {RemotePathParameterRequired},
                  remote_path |-> <<>>, return_file |-> FALSE]
            ELSE [ok |-> TRUE, reply |-> {}, remote_path |-> remote_path,
                  return_file |-> return_file]
        Refused(reply) ==
            [ok |-> FALSE, reply |-> {reply}, remote_path |-> <<>>,
             return_file |-> FALSE]
    IN  IF req.method = "GET"
        THEN Parsed(Get(req.args, "path", <<>>),
                    lower(Get(req.args, "return_file", <<"f", "a", "l", "s", "e">>))
                      = StrTrue)
        ELSE IF req.json = {} /\ req.strict
        THEN Refused(UnsupportedMediaType)
        ELSE IF JsonMissing(req)
        THEN Refused(RemotePathRequired)
        ELSE Parsed(data.remote_path, Get(data, "return_file", FALSE))

\* `temp_file = tempfile.NamedTemporaryFile(delete=False); temp_file.close()`
download_reserve(W, temp) == [W EXCEPT !.lf = Put(W.lf, temp, <<>>)]

\* The reply of download_file once the service has returned: the error
\* result, the scratch file itself through send_file, or the result with the
\* bytes of the scratch file in base64.
download_reply(o, remote_path, temp, return_file) ==
    LET result == CHOOSE r \in o.ret : TRUE
    IN  IF o.exc # {}
        THEN Reply(500, ErrorBody((CHOOSE e \in o.exc : TRUE).msg))
        ELSE IF result.status # "success"
        THEN Reply(400, result)
        ELSE IF temp \notin DOMAIN o.lf
        THEN Reply(500, ErrorBody(<<"No such file or directory:">> \o temp))
        ELSE IF return_file
        THEN [code |-> 200, body |-> {},
              file |-> {[path |-> temp, download_name |-> PathName(remote_path),
                         data |-> o.lf[temp]]}]
        ELSE Reply(200, result @@ [file_data |-> b64encode(o.lf[temp]),
                                   encoding |-> "base64"])

\* The `finally` of download_file: `if not return_file: os.unlink(temp_path)`.
download_cleanup(files, temp, return_file) ==
    IF return_file THEN files ELSE Drop(files, temp)

\* GET or POST /smb/download, from the request to the reply.
api_download_file(req, W, url, temp, fault) ==
    LET p == download_parse(req)
        o == download_file(download_reserve(W, temp), url, p.remote_path, temp,
                           TRUE, fault)
    IN  IF ~p.ok THEN Early(CHOOSE r \in p.reply : TRUE, W)
        ELSE Handling(download_reply(o, p.remote_path, temp, p.return_file),
                      [After(o) EXCEPT
                         !.lf = download_cleanup(o.lf, temp, p.return_file)],
                      {temp}, <<"download_file">>, o.ret, o.trace, o.fired)

\* ---------------------------------------------------- smb_api: the requests
Request(method, args, json, file, form, strict) ==
    [method |-> method, args |-> args, json |-> json, file |-> file,
     form |-> form, strict |-> strict]

\* A JSON body, and a body that is not JSON under either behaviour of
\* request.get_json().
JsonBody(method, data) == Request(method, <<>>, {data}, {}, <<>>, FALSE)

NoJsonBody(method) ==
    {Request(method, <<>>, {}, {}, <<>>, strict) : strict \in BOOLEAN}

Query(method, args) == Request(method, args, {}, {}, <<>>, FALSE)

\* The payloads the uploads carry.
Payloads == {SubSeq(Pattern, 1, MaxLen - 1), Pattern}

ListRequests == {Query("GET", <<>>), Query("GET", [path |-> <<"/", "d">>])}

DeleteRequests ==
    {Query("DELETE", <<>>), Query("DELETE", [path |-> <<>>]),
     Query("DELETE", [path |-> <<"b">>]),
     JsonBody("POST", <<>>), JsonBody("POST", [remote_path |-> <<>>]),
     JsonBody("POST", [remote_path |-> <<"b">>])}
      \cup NoJsonBody("POST")

MkdirRequests ==
    {JsonBody("POST", <<>>), JsonBody("POST", [remote_path |-> <<>>]),
     JsonBody("POST", [remote_path |-> <<"/", "d">>])}
      \cup NoJsonBody("POST")

\* A multipart upload of file_data under a file name.
Multipart(filename, file_data, form) ==
    Request("POST", <<>>, {}, {[filename |-> filename, data |-> file_data]},
            form, FALSE)

UploadRequests ==
    {Multipart(<<"a">>, c, <<>>) : c \in Payloads}
      \cup {Multipart(<<>>, Pattern, <<>>)}
      \cup {Multipart(<<"a">>, Pattern,
                      [remote_path |-> <<"d", "/", "a">>, create_dirs |-> cd]) :
              cd \in {<<"T", "r", "u", "e">>, <<"n", "o">>}}
      \cup {JsonBody("POST", [file_data |-> b64encode(c), filename |-> <<"/", "a">>]) :
              c \in Payloads}
      \cup {JsonBody("POST", [file_data |-> b64encode(Pattern), filename |-> <<"a">>,
                              remote_path |-> <<"d", "/", "a">>, create_dirs |-> cd]) :
              cd \in BOOLEAN}
      \cup {JsonBody("POST", [file_data |-> b64encode(Pattern)]),
            JsonBody("POST", [file_data |-> <<"e">>, filename |-> <<"a">>]),
            Query("POST", <<>>)}

DownloadRequests ==
    {Query("GET", <<>>), Query("GET", [path |-> <<"b">>]),
     Query("GET", [path |-> <<"n">>, return_file |-> <<"T", "r", "u", "e">>]),
     Query("GET", [path |-> <<"a">>, return_file |-> <<"T", "r", "u", "e">>]),
     JsonBody("POST", <<>>),
     JsonBody("POST", [remote_path |-> <<"d", "/", "a">>]),
     JsonBody("POST", [remote_path |-> <<"b">>, return_file |-> TRUE])}
      \cup NoJsonBody("POST")

\* The configuration files the gateway is started with: a complete one and
\* one that lacks the password.
ApiConfigInputs ==
    {[f \in RequiredFieldSet |-> FieldValue(f)],
     [f \in RequiredFieldSet \ {"password"} |-> FieldValue(f)]}

\* The requests the concurrent runs send.
ConcurrentUploads ==
    {Multipart(<<"a">>, c, <<>>) : c \in Payloads} \cup {Query("POST", <<>>)}

ConcurrentDownloads ==
    {Query("GET", <<>>), Query("GET", [path |-> <<"b">>]),
     Query("GET", [path |-> <<"a">>]),
     Query("GET", [path |-> <<"a">>, return_file |-> <<"T", "r", "u", "e">>])}

\* ----------------------------------------------------- smb_api: the server
\* smb_service is not None.
Initialized == phase = "ready"

\* The application answers requests: from import on (smb_service may still
\* be None) until main gives up.
Serving == phase \in {"start", "ready"}

\* The response a handler sends, with the request it answers.
Sent(route, req, fault, reply, temp, calls, result, trace) ==
    [route |-> route, req |-> req, fault |-> fault, code |-> reply.code,
     body |-> reply.body, file |-> reply.file, temp |-> temp, calls |-> calls,
     result |-> result, trace |-> trace, initialized |-> Initialized]

\* A handler ran from the request to the response: its effects on both
\* filesystems are in place and its response replaces the last one.
Answer(route, req, fault, h) ==
    /\ fault = NoFault \/ h.fired
    /\ lf' = h.lf
    /\ ld' = h.ld
    /\ rf' = h.rf
    /\ rd' = h.rd
    /\ response' = Sent(route, req, fault, h.reply, h.temp, h.calls, h.result, h.trace)
    /\ UNCHANGED <<phase, config, server_url, uploaded, lastCall, inflight>>

\* init_smb_service_from_env / init_smb_service_from_config: the loader and
\* SMBFileService(config) run in one try block; when either raises,
\* smb_service stays None, the function returns False and main exits.
InitSmbService(o, registered) ==
    LET ok == o.ok /\ registered
        cfg == CHOOSE c \in o.config : TRUE
    IN  /\ phase' = IF ok THEN "ready" ELSE "exit"
        /\ config' = IF ok THEN o.config ELSE {}
        /\ server_url' = IF ok THEN <<"/", "/">> \o cfg.server \o <<"/">> \o cfg.share
                         ELSE <<>>
        /\ UNCHANGED <<lf, ld, rf, rd, uploaded, lastCall, inflight, response>>

InitSmbServiceFromEnv ==
    /\ phase = "start"
    /\ \E env \in EnvInputs, registered \in BOOLEAN :
        InitSmbService(load_config_from_env(env), registered)

InitSmbServiceFromConfig ==
    /\ phase = "start"
    /\ \E readable \in BOOLEAN, data \in ApiConfigInputs, registered \in BOOLEAN :
        InitSmbService(load_config_from_file(readable, data), registered)

\* `@require_smb_service()`: the wrapped handler h runs only when smb_service
\* is set.
Guarded(h) == IF ~Initialized THEN Early(NotInitialized, World) ELSE h

ApiHealthCheck ==
    /\ Serving
    /\ Answer("/health", Query("GET", <<>>), NoFault,
              Early(health_check(Initialized), World))

ApiTestConnection ==
    /\ Serving
    /\ \E fault \in {NoFault} \cup Fault("listdir", 1) :
        Answer("/smb/test", Query("GET", <<>>), fault,
               Guarded(api_test_connection(World, CHOOSE c \in config : TRUE,
                                           server_url, fault)))

ApiListFiles ==
    /\ Serving
    /\ \E req \in ListRequests, fault \in {NoFault} \cup Fault("listdir", 1) :
        Answer("/smb/files", req, fault,
               Guarded(api_list_files(req, World, server_url, fault,
                                      [i \in 1..Cardinality(DOMAIN rf \cup rd) |-> "ok"])))

UploadRouteFaults ==
    {NoFault} \cup Fault("exists", 1) \cup Fault("makedirs", 1)
      \cup Fault("write", 1)

ApiUploadFile ==
    /\ Serving
    /\ \E req \in UploadRequests, temp \in FreeScratch(lf), fault \in UploadRouteFaults :
        Answer("/smb/upload", req, fault,
               Guarded(api_upload_file(req, World, server_url, temp, fault)))

ApiDownloadFile ==
    /\ Serving
    /\ \E req \in DownloadRequests, temp \in FreeScratch(lf),
          fault \in {NoFault} \cup Fault("open_remote", 1) :
        Answer("/smb/download", req, fault,
               Guarded(api_download_file(req, World, server_url, temp, fault)))

ApiDeleteFile ==
    /\ Serving
    /\ \E req \in DeleteRequests :
        Answer("/smb/delete", req, NoFault, Guarded(delete_file(req, World)))

ApiCreateDirectory ==
    /\ Serving
    /\ \E req \in MkdirRequests,
          fault \in {NoFault} \cup Fault("exists", 1) \cup Fault("makedirs", 1) :
        Answer("/smb/mkdir", req, fault,
               Guarded(create_directory(req, World, server_url, fault)))

\* The gateway: initialisation, then requests handled one at a time.
ApiNext ==
    \/ InitSmbServiceFromEnv
    \/ InitSmbServiceFromConfig
    \/ ApiHealthCheck
    \/ ApiTestConnection
    \/ ApiListFiles
    \/ ApiUploadFile
    \/ ApiDownloadFile
    \/ ApiDeleteFile
    \/ ApiCreateDirectory

ApiSpec == StartInit /\ [][ApiNext]_vars

\* ------------------------------------------- smb_api: requests in flight
\* Flask serves each request on a thread of its own, so the handlers of
\* /smb/upload and /smb/download interleave.  A worker goes from "idle" to
\* "saved" (the scratch file exists), to "called" (the service has
\* returned) and back to "idle" (the finally block ran, the response is
\* sent).  own is the payload of an upload, got the bytes the remote file
\* of a download held when the service read it.
Saved(route, req, temp, p, flag, own) ==
    [pc |-> "saved", route |-> route, req |-> req, temp |-> temp,
     remote_path |-> p.remote_path, flag |-> flag, own |-> own]

Called(job, o, got) ==
    [pc |-> "called", route |-> job.route, req |-> job.req, temp |-> job.temp,
     remote_path |-> job.remote_path, flag |-> job.flag, own |-> job.own,
     ret |-> o.ret, exc |-> o.exc, trace |-> o.trace, got |-> got]

\* The service with one SMBConfig(ValidConfig) constructed, no request yet.
ServingInit ==
    /\ phase = "ready"
    /\ config = {ValidConfig}
    /\ server_url = <<"/", "/">> \o ValidConfig.server \o <<"/">> \o ValidConfig.share
    /\ InitFiles(Pattern)

\* A request that ends before a scratch file exists.
Refuse(route, req, reply) ==
    /\ response' = Sent(route, req, NoFault, reply, {}, <<>>, {}, <<>>)
    /\ UNCHANGED <<lf, inflight>>

\* upload_file up to and including the write of the scratch file.
UploadBegin ==
    /\ Initialized
    /\ \E w \in Workers, req \in ConcurrentUploads, temp \in FreeScratch(lf) :
        LET p == upload_parse(req)
        IN  /\ inflight[w] = Idle
            /\ IF ~p.ok THEN Refuse("/smb/upload", req, CHOOSE r \in p.reply : TRUE)
               ELSE /\ lf' = upload_save(World, temp, p.file_data).lf
                    /\ inflight' = [inflight EXCEPT ![w] =
                           Saved("/smb/upload", req, temp, p, p.create_dirs, {p.file_data})]
                    /\ UNCHANGED response
    /\ UNCHANGED <<phase, config, server_url, ld, rf, rd, uploaded, lastCall>>

\* `result = smb_service.upload_file(temp_path, remote_path, create_dirs)`
UploadCall ==
    /\ Initialized
    /\ \E w \in Workers :
        LET job == inflight[w]
            o == upload_file(World, server_url, job.temp, job.remote_path,
                             job.flag, NoFault)
        IN  /\ job.pc = "saved"
            /\ job.route = "/smb/upload"
            /\ lf' = o.lf
            /\ ld' = o.ld
            /\ rf' = o.rf
            /\ rd' = o.rd
            /\ inflight' = [inflight EXCEPT ![w] = Called(job, o, {})]
    /\ UNCHANGED <<phase, config, server_url, uploaded, lastCall, response>>

\* The reply and the finally block of upload_file.
UploadFinish ==
    /\ Initialized
    /\ \E w \in Workers :
        LET job == inflight[w]
        IN  /\ job.pc = "called"
            /\ job.route = "/smb/upload"
            /\ response' = Sent(job.route, job.req, NoFault, Rendered(job),
                                {job.temp}, <<"upload_file">>, job.ret, job.trace)
            /\ lf' = upload_cleanup(lf, job.temp)
            /\ inflight' = [inflight EXCEPT ![w] = Idle]
    /\ UNCHANGED <<phase, config, server_url, ld, rf, rd, uploaded, lastCall>>

\* download_file up to and including the creation of the scratch file.
DownloadBegin ==
    /\ Initialized
    /\ \E w \in Workers, req \in ConcurrentDownloads, temp \in FreeScratch(lf) :
        LET p == download_parse(req)
        IN  /\ inflight[w] = Idle
            /\ IF ~p.ok THEN Refuse("/smb/download", req, CHOOSE r \in p.reply : TRUE)
               ELSE /\ lf' = download_reserve(World, temp).lf
                    /\ inflight' = [inflight EXCEPT ![w] =
                           Saved("/smb/download", req, temp, p, p.return_file, {})]
                    /\ UNCHANGED response
    /\ UNCHANGED <<phase, config, server_url, ld, rf, rd, uploaded, lastCall>>

\* `result = smb_service.download_file(remote_path, temp_path, overwrite=True)`
DownloadCall ==
    /\ Initialized
    /\ \E w \in Workers :
        LET job == inflight[w]
            o == download_file(World, server_url, job.remote_path, job.temp,
                               TRUE, NoFault)
            key == RemoteKey(full_remote_path(server_url, job.remote_path))
        IN  /\ job.pc = "saved"
            /\ job.route = "/smb/download"
            /\ lf' = o.lf
            /\ ld' = o.ld
            /\ rf' = o.rf
            /\ rd' = o.rd
            /\ inflight' = [inflight EXCEPT ![w] =
                   Called(job, o, IF key \in DOMAIN rf THEN {rf[key]} ELSE {})]
    /\ UNCHANGED <<phase, config, server_url, uploaded, lastCall, response>>

\* The reply and the finally block of download_file.
DownloadFinish ==
    /\ Initialized
    /\ \E w \in Workers :
        LET job == inflight[w]
        IN  /\ job.pc = "called"
            /\ job.route = "/smb/download"
            /\ response' = Sent(job.route, job.req, NoFault,
                                download_reply([ret |-> job.ret, exc |-> job.exc,
                                                lf |-> lf],
                                               job.remote_path, job.temp, job.flag),
                                {job.temp}, <<"download_file">>, job.ret, job.trace)
            /\ lf' = download_cleanup(lf, job.temp, job.flag)
            /\ inflight' = [inflight EXCEPT ![w] = Idle]
    /\ UNCHANGED <<phase, config, server_url, ld, rf, rd, uploaded, lastCall>>

\* The gateway with transfers in flight on every worker.
ConcurrentNext ==
    \/ UploadBegin
    \/ UploadCall
    \/ UploadFinish
    \/ DownloadBegin
    \/ DownloadCall
    \/ DownloadFinish

ConcurrentSpec == ServingInit /\ [][ConcurrentNext]_vars

\* ------------------------------------------------------------------ claims
ServiceOps ==
    {"upload_file", "download_file", "list_files", "test_connection",
     "_ensure_remote_dir"}

PublicOps == {"upload_file", "download_file", "list_files", "test_connection"}

\* The set of elements of a sequence.
Range(q) == {q[i] : i \in DOMAIN q}

\* The result record of the latest call, when it returned one.
Result == CHOOSE r \in lastCall.ret : TRUE

Succeeded == lastCall.ret # {} /\ Result.status = "success"

Failed == lastCall.ret # {} /\ Result.status = "error"

\* C1: whenever an operation of the service has been attempted, the
\* configuration it runs with has a non-empty server, share, username and
\* password, whichever loader produced it.
C1_ConfigNonEmptyWhenOperating ==
    lastCall.op \in ServiceOps =>
        \A cfg \in config :
            /\ cfg.server # <<>>
            /\ cfg.share # <<>>
            /\ cfg.username # <<>>
            /\ cfg.password # <<>>

\* The required settings an environment leaves unset or empty.
MissingIn(env) ==
    {f \in RequiredFieldSet : getenv(env, EnvName(f), <<>>) = <<>>}

\* SMB_PORT and SMB_TIMEOUT are unset or decimal literals.
NumbersParse(env) ==
    /\ "SMB_PORT" \in DOMAIN env => IsIntLiteral(env["SMB_PORT"])
    /\ "SMB_TIMEOUT" \in DOMAIN env => IsIntLiteral(env["SMB_TIMEOUT"])

\* The loader raised a validation error whose text names every field of F.
ValidationErrorNaming(F) ==
    /\ lastCall.ret = {}
    /\ \E e \in lastCall.exc :
        /\ e.type = "ValueError"
        /\ {EnvName(f) : f \in F} \subseteq Range(e.msg)

\* C2 as stated: loading from the environment fails with a validation error
\* naming the missing fields whenever one of the four required settings is
\* missing or empty, and succeeds whenever all four are non-empty.
C2_LoadFailsIffRequiredMissing ==
    lastCall.op = "load_config_from_env" =>
        LET env == lastCall.args.env
        IN  IF MissingIn(env) # {}
            THEN ValidationErrorNaming(MissingIn(env))
            ELSE lastCall.ret # {} /\ lastCall.exc = {}

\* C2 amended: a missing or empty required setting always makes loading from
\* the environment fail without a configuration; when SMB_PORT and
\* SMB_TIMEOUT are unset or integers, that failure is the validation error,
\* which names all four required variables, and loading succeeds with the
\* four values exactly when all four are non-empty.
C2_LoadFailsIffRequiredMissing_WhenNumbersParse ==
    lastCall.op = "load_config_from_env" =>
        LET env == lastCall.args.env
        IN  /\ MissingIn(env) # {} => lastCall.ret = {} /\ lastCall.exc # {}
            /\ NumbersParse(env) /\ MissingIn(env) # {} =>
                   ValidationErrorNaming(RequiredFieldSet)
            /\ NumbersParse(env) /\ MissingIn(env) = {} =>
                   /\ lastCall.exc = {}
                   /\ \E cfg \in lastCall.ret :
                        \A f \in RequiredFieldSet : cfg[f] = env[EnvName(f)]
            /\ ~NumbersParse(env) => lastCall.ret = {} /\ lastCall.exc # {}

\* C2 witness: exactly one required variable is unset, the numbers parse,
\* and the loader has raised.
C2_Witness ==
    /\ lastCall.op = "load_config_from_env"
    /\ NumbersParse(lastCall.args.env)
    /\ Cardinality(MissingIn(lastCall.args.env)) = 1
    /\ "SMB_SHARE" \notin DOMAIN lastCall.args.env
    /\ lastCall.exc # {}
    /\ phase = "exit"

\* Number of leading slashes removed, computed by position.
WithoutLeadingSlashes(s) ==
    LET first == {i \in 1..Len(s) : s[i] # "/"}
    IN  IF first = {} THEN <<>>
        ELSE SubSeq(s, CHOOSE i \in first : \A j \in first : i <= j, Len(s))

\* C3: a successful upload_file reports the size of the local file and the
\* remote path "//server/share" + "/" + remote_path without its leading
\* slashes.
C3_UploadReportsSizeAndPath ==
    lastCall.op = "upload_file" /\ Succeeded =>
        \A cfg \in config :
            /\ Result.size_bytes = Len(lf[lastCall.args.local_path])
            /\ Result.remote_path =
                 <<"/", "/">> \o cfg.server \o <<"/">> \o cfg.share \o <<"/">>
                   \o WithoutLeadingSlashes(lastCall.args.remote_path)

\* C3 witness: a file of MaxLen bytes was uploaded to a path given with
\* leading slashes.
C3_Witness ==
    /\ lastCall.op = "upload_file"
    /\ Succeeded
    /\ Head(lastCall.args.remote_path) = "/"
    /\ Result.size_bytes = MaxLen

\* The latest call made no call into the SMB client.
NoRemoteCall(trace) ==
    \A i \in DOMAIN trace :
        trace[i] \in {"local.exists", "local.mkdir", "local.open_rb",
                      "local.open_wb", "local.stat"}

\* The remote file a download_file call names.
DownloadKey(call) == RemoteKey(full_remote_path(server_url, call.args.remote_path))

\* C4: download_file to a local path that exists, with overwrite false,
\* returns the error result of FileExistsError, makes no call into the SMB
\* client and leaves the local files and the share as they were.
C4_ExistingLocalRefusedBeforeRemote ==
    [][(/\ lastCall'.op = "download_file"
        /\ LocalExists(lf, ld, lastCall'.args.local_path)
        /\ ~lastCall'.args.overwrite)
       => (/\ lastCall'.exc = {}
           /\ \E r \in lastCall'.ret :
                /\ r.status = "error"
                /\ r.error = <<"Local file exists and overwrite=False:">>
                               \o lastCall'.args.local_path
           /\ NoRemoteCall(lastCall'.trace)
           /\ UNCHANGED <<lf, ld, rf, rd>>)]_vars

\* C4 witness: a download to the existing new/dst was refused.
C4_Witness ==
    /\ lastCall.op = "download_file"
    /\ ~lastCall.args.overwrite
    /\ lastCall.args.local_path \in DOMAIN lf
    /\ Failed
    /\ Result.error = <<"Local file exists and overwrite=False:">>
                        \o lastCall.args.local_path

\* The latest call is a download_file that found the remote path missing.
RemoteNotFound(call) ==
    /\ call.op = "download_file"
    /\ \E r \in call.ret :
        /\ r.status = "error"
        /\ r.error = <<"Remote file not found:">>
                       \o full_remote_path(server_url, call.args.remote_path)

\* C5 as stated: when download_file fails because the remote path does not
\* exist, the local filesystem - the destination file and its parent
\* directories - is as it was before the call.
C5_NotFoundLeavesLocalUntouched ==
    [][RemoteNotFound(lastCall') => UNCHANGED <<lf, ld>>]_vars

\* C5 amended: download_file of a remote path that does not exist returns an
\* error result and never creates or writes the destination file; when the
\* failure is the NotFound one, the destination's parent directories have
\* already been created and nothing has been opened on either side.
C5_NotFoundBeforeFileWrite ==
    [][(/\ lastCall'.op = "download_file"
        /\ ~RemoteExists(rf, rd, DownloadKey(lastCall')))
       => (/\ lastCall'.exc = {}
           /\ \E r \in lastCall'.ret : r.status = "error"
           /\ UNCHANGED <<lf, rf, rd>>
           /\ RemoteNotFound(lastCall') =>
                /\ ld' = ld \cup LocalPrefixes(LocalParent(lastCall'.args.local_path))
                /\ lastCall'.trace = <<"local.exists", "local.mkdir", "smb.exists">>)]_vars

\* C5 witness: NotFound was returned, the directory new exists and the
\* destination new/dst does not.
C5_Witness ==
    /\ RemoteNotFound(lastCall)
    /\ lastCall.args.local_path = <<"new", "dst">>
    /\ <<"new">> \in ld
    /\ <<"new", "dst">> \notin DOMAIN lf

\* C6: a successful download_file of a remote path whose latest write was a
\* successful upload_file yields a local file with the bytes of the uploaded
\* local file, and reports the size_bytes the upload reported.
C6_RoundTrip ==
    (/\ lastCall.op = "download_file"
     /\ Succeeded
     /\ DownloadKey(lastCall) \in DOMAIN uploaded)
    => (/\ lf[lastCall.args.local_path] = uploaded[DownloadKey(lastCall)].content
        /\ Result.size_bytes = uploaded[DownloadKey(lastCall)].size_bytes)

\* C6 witness: a file of MaxLen bytes went up and came back down.
C6_Witness ==
    /\ lastCall.op = "download_file"
    /\ Succeeded
    /\ DownloadKey(lastCall) \in DOMAIN uploaded
    /\ Len(uploaded[DownloadKey(lastCall)].content) = MaxLen
    /\ lastCall.args.local_path # <<"src">>

\* The directory a list_files call names.
ListKey(call) == RemoteKey(full_remote_path(server_url, call.args.remote_path))

\* C7: when the enumeration of the directory succeeds, list_files returns
\* success with one entry per child and count equal to the number of
\* children; a child whose stat or isdir failed has exactly the keys name
\* and error, every other child exactly name, size, is_dir and modified.
C7_ListingIsolatesEntryFailures ==
    (/\ lastCall.op = "list_files"
     /\ lastCall.fault.step # "listdir"
     /\ RemoteIsDir(rd, ListKey(lastCall)))
    => (/\ lastCall.exc = {}
        /\ Succeeded
        /\ Result.count = Cardinality(RemoteChildren(rf, rd, ListKey(lastCall)))
        /\ Len(Result.files) = Result.count
        /\ {Result.files[i].name : i \in 1..Len(Result.files)}
             = RemoteChildren(rf, rd, ListKey(lastCall))
        /\ \A i \in 1..Len(Result.files) :
             IF lastCall.args.bad[i] = "ok"
             THEN DOMAIN Result.files[i] = {"name", "size", "is_dir", "modified"}
             ELSE DOMAIN Result.files[i] = {"name", "error"})

\* C7 witness: a directory with two children was listed, one of them failed.
C7_Witness ==
    /\ lastCall.op = "list_files"
    /\ Succeeded
    /\ Result.count = 2
    /\ Cardinality({i \in 1..2 : "error" \in DOMAIN Result.files[i]}) = 1

\* C8: when _ensure_remote_dir is called again on the path of the call
\* before it and the directory exists, the second call does not call
\* makedirs, raises nothing and leaves the share as it is.
C8_EnsureRemoteDirIdempotent ==
    [][(/\ lastCall.op = "_ensure_remote_dir"
        /\ lastCall'.op = "_ensure_remote_dir"
        /\ lastCall'.args = lastCall.args
        /\ RemoteExists(rf, rd, RemoteKey(lastCall.args.remote_dir_path)))
       => (/\ "smb.makedirs" \notin Range(lastCall'.trace)
           /\ lastCall'.exc = {}
           /\ UNCHANGED <<rf, rd>>)]_vars

\* C8 witness: a first call created the directory, which now exists.
C8_Witness ==
    /\ lastCall.op = "_ensure_remote_dir"
    /\ "smb.makedirs" \in Range(lastCall.trace)
    /\ RemoteKey(lastCall.args.remote_dir_path) \in rd

\* C9 as stated: a result of the four public operations has an error key
\* exactly when its status is "error", and the error text is never empty.
C9_ErrorIffStatusErrorAndNonEmpty ==
    lastCall.op \in PublicOps =>
        \A r \in lastCall.ret :
            /\ r.status \in {"success", "error"}
            /\ r.status = "error" <=> "error" \in DOMAIN r
            /\ r.status = "error" => r.error # <<>>

\* C9 amended: a result of the four public operations has an error key
\* exactly when its status is "error"; the error text is str(e) of the
\* exception caught, which is empty only for an exception of the library or
\* the system that carries no message.
C9_ErrorKeyIffStatusError ==
    lastCall.op \in PublicOps =>
        \A r \in lastCall.ret :
            /\ r.status \in {"success", "error"}
            /\ r.status = "error" <=> "error" \in DOMAIN r
            /\ (r.status = "error" /\ r.error = <<>>) =>
                 lastCall.fault.step # "none" /\ lastCall.fault.msg = <<>>

\* C9 witness: an error result whose error text is the empty string.
C9_Witness ==
    /\ lastCall.op \in PublicOps
    /\ Failed
    /\ "error" \in DOMAIN Result
    /\ Result.error = <<>>

\* C10: every call of the four public operations returns exactly one result
\* record and propagates no exception, and the service stays ready.
C10_AlwaysOneResultNoException ==
    lastCall.op \in PublicOps =>
        /\ lastCall.exc = {}
        /\ Cardinality(lastCall.ret) = 1
        /\ Result.status \in {"success", "error"}
        /\ phase = "ready"

\* C10 witness: the second write of an upload failed inside the SMB client
\* and the call returned an error result.
C10_Witness ==
    /\ lastCall.op = "upload_file"
    /\ lastCall.fault.step = "write"
    /\ lastCall.fault.k = 2
    /\ lastCall.exc = {}
    /\ Failed

\* The body of the latest response, when it is JSON.
Body == CHOOSE b \in response.body : TRUE

\* C11 as stated: while smb_service is not initialized, a request to any
\* route, /health included, is answered with 500 and the body {status:
\* error, error: "SMB service not initialized"}, and its handler invokes no
\* operation of the service.
C11_UninitializedEveryRoute500 ==
    (response.route # "none" /\ ~response.initialized) =>
        /\ response.code = 500
        /\ response.body = {[status |-> "error",
                             error |-> <<"SMB service not initialized">>]}
        /\ response.calls = <<>>

\* C11 amended: while smb_service is not initialized, a request to any of
\* the six /smb routes is answered with 500 and the body {status: error,
\* error: "SMB service not initialized"}; /health is answered with 200,
\* status healthy and smb_initialized false; no handler invokes an operation
\* of the service, makes a library call or creates a scratch file.
C11_UninitializedSmbRoutes500 ==
    (response.route # "none" /\ ~response.initialized) =>
        /\ response.calls = <<>>
        /\ response.trace = <<>>
        /\ response.temp = {}
        /\ IF response.route = "/health"
           THEN /\ response.code = 200
                /\ Body.status = "healthy"
                /\ Body.smb_initialized = FALSE
           ELSE /\ response.code = 500
                /\ response.body = {[status |-> "error",
                                     error |-> <<"SMB service not initialized">>]}

\* C11 witness: an upload that carries a file was answered before the
\* service was initialized.
C11_Witness ==
    /\ response.route = "/smb/upload"
    /\ ~response.initialized
    /\ response.req.file # {}
    /\ response.code = 500
    /\ phase = "start"

\* The latest request to /smb/delete names a non-empty path: the query
\* parameter path of a DELETE, the JSON field remote_path of a POST.
DeletePathGiven(req) ==
    IF req.method = "DELETE"
    THEN "path" \in DOMAIN req.args /\ req.args.path # <<>>
    ELSE \E d \in req.json : "remote_path" \in DOMAIN d /\ d.remote_path # <<>>

\* A step in which an initialized gateway answers a request to /smb/delete.
DeleteAnswered ==
    /\ phase = "ready"
    /\ phase' = "ready"
    /\ response'.route = "/smb/delete"

\* C12 as stated: with the service initialized, every request to
\* /smb/delete is answered with 501, whatever its parameters or body, and
\* the share is left as it is.
C12_DeleteAlways501 ==
    [][DeleteAnswered => (response'.code = 501 /\ UNCHANGED <<rf, rd>>)]_vars

\* C12 amended: with the service initialized, a request to /smb/delete is
\* answered with 501 exactly when it names a non-empty path; without one it
\* is answered with 400, or with 500 when the POST body is not JSON and
\* get_json raises.  The answer always has status error, no operation of the
\* service is invoked and the share and the local files are left as they
\* are.
C12_Delete501WhenPathGiven ==
    [][DeleteAnswered =>
         (/\ response'.code = (IF DeletePathGiven(response'.req) THEN 501
                               ELSE IF response'.req.method = "POST"
                                       /\ response'.req.json = {}
                                       /\ response'.req.strict THEN 500
                               ELSE 400)
          /\ \A b \in response'.body : b.status = "error"
          /\ response'.body # {}
          /\ response'.calls = <<>>
          /\ UNCHANGED <<lf, ld, rf, rd>>)]_vars

\* C12 witness: a DELETE of the existing remote file b was answered with 501
\* and b is still there.
C12_Witness ==
    /\ response.route = "/smb/delete"
    /\ response.initialized
    /\ response.req.method = "DELETE"
    /\ response.req.args = [path |-> <<"b">>]
    /\ response.code = 501
    /\ SeedKey \in DOMAIN rf

\* C13 as stated: once a request to /smb/upload or /smb/download has been
\* answered, the scratch file its handler created is gone, and no scratch
\* file of the gateway is left on disk between requests.
C13_ScratchRemovedOnEveryPath ==
    /\ response.route # "none" => \A t \in response.temp : t \notin DOMAIN lf
    /\ (\A w \in Workers : inflight[w] = Idle) => DOMAIN lf \cap ScratchNames = {}

\* The routes that render a result record of the service.
ResultRoutes == {"/smb/test", "/smb/files", "/smb/upload", "/smb/download"}

\* The result record the service returned to the latest handler.
ServiceResult == CHOOSE r \in response.result : TRUE

\* C14: when an initialized gateway has passed a request to /smb/test,
\* /smb/files, /smb/upload or /smb/download on to the service, the HTTP
\* status is 200 exactly when the status of the service's result is
\* "success" and 400 exactly when it is "error", and the status field of a
\* JSON body agrees with it (the reply of return_file=true is the file
\* itself and has no body).
C14_StatusCodeFromResultStatus ==
    (/\ response.route \in ResultRoutes
     /\ response.initialized
     /\ response.result # {})
    => (/\ ServiceResult.status \in {"success", "error"}
        /\ response.code = 200 <=> ServiceResult.status = "success"
        /\ response.code = 400 <=> ServiceResult.status = "error"
        /\ \A b \in response.body :
             /\ b.status = ServiceResult.status
             /\ b.status = "success" <=> response.code = 200
             /\ b.status = "error" <=> response.code = 400
        /\ response.body = {} =>
             /\ response.route = "/smb/download"
             /\ response.file # {}
             /\ response.code = 200)

\* C14 witness: an upload without create_dirs into a directory that does
\* not exist came back from the service as an error and was answered 400.
C14_Witness ==
    /\ response.route = "/smb/upload"
    /\ response.initialized
    /\ response.fault = NoFault
    /\ response.result # {}
    /\ ServiceResult.status = "error"
    /\ response.code = 400
    /\ Body.status = "error"

\* Worker w is handling a request whose scratch file has been created.
InFlight(w) == inflight[w].pc # "idle"

\* Worker w sends its response in this step.
Finishes(w) == inflight[w].pc = "called" /\ inflight'[w] = Idle

\* The scratch files of requests in flight are distinct and exist.
ScratchFilesDistinct ==
    /\ \A w1, w2 \in Workers :
         (w1 # w2 /\ InFlight(w1) /\ InFlight(w2))
           => inflight[w1].temp # inflight[w2].temp
    /\ \A w \in Workers : InFlight(w) => inflight[w].temp \in DOMAIN lf

\* A step of one worker leaves the scratch file of every other request in
\* flight in place with the bytes it had.
ScratchFilesUndisturbed ==
    \A w \in Workers :
        (InFlight(w) /\ inflight'[w] = inflight[w])
          => /\ inflight[w].temp \in DOMAIN lf'
             /\ lf'[inflight[w].temp] = lf[inflight[w].temp]

\* The response a worker sends tells of its own transfer: an upload reports
\* the size of its own payload, a download returns the bytes its own remote
\* file held when the service read it.
ResponseOfOwnTransfer ==
    \A w \in Workers :
        Finishes(w) =>
            /\ response'.req = inflight[w].req
            /\ response'.result = inflight[w].ret
            /\ response'.temp = {inflight[w].temp}
            /\ inflight[w].route = "/smb/upload" =>
                 \A b \in response'.body, c \in inflight[w].own :
                     /\ b.status = "success"
                     /\ b.size_bytes = Len(c)
                     /\ b.local_path = inflight[w].temp
            /\ inflight[w].route = "/smb/download" =>
                 /\ inflight[w].got # {} <=> response'.code = 200
                 /\ \A c \in inflight[w].got :
                      /\ \A b \in response'.body :
                           b.file_data = b64encode(c) /\ b.size_bytes = Len(c)
                      /\ \A f \in response'.file :
                           f.data = c /\ f.path = inflight[w].temp

\* C15: with uploads and downloads in flight on several workers, in every
\* interleaving, no two requests in flight have the same scratch file, no
\* step of one request removes or rewrites the scratch file of another, and
\* every response carries the size_bytes and file_data of its own payload
\* or its own remote file.
C15_ConcurrentTransfersIsolated ==
    /\ []ScratchFilesDistinct
    /\ [][ScratchFilesUndisturbed /\ ResponseOfOwnTransfer]_vars

\* C15 witness: an upload and a download are in flight at once, both back
\* from the service, and the bytes the download read are not the payload of
\* the upload.
C15_Witness ==
    \E w1, w2 \in Workers :
        /\ inflight[w1].pc = "called"
        /\ inflight[w1].route = "/smb/upload"
        /\ inflight[w2].pc = "called"
        /\ inflight[w2].route = "/smb/download"
        /\ inflight[w2].got # {}
        /\ inflight[w2].got # inflight[w1].own
        /\ inflight[w2].remote_path = <<"a">>

\* The position of the first call named label in a trace, 0 when absent.
FirstIndex(trace, label) ==
    IF label \in Range(trace)
    THEN CHOOSE i \in DOMAIN trace :
             trace[i] = label /\ \A j \in 1..(i - 1) : trace[j] # label
    ELSE 0

\* The remote file the latest upload request names.
UploadTarget ==
    RemoteKey(full_remote_path(server_url, upload_parse(response.req).remote_path))

\* C16: _ensure_remote_dir returns normally when its existence check or
\* makedirs fails.  POST /smb/mkdir with a string remote_path is answered
\* with 200 and status success, whether or not the directory exists
\* afterwards.  An upload with create_dirs whose directory creation failed
\* still opens the remote file: it succeeds and writes the payload when the
\* directory is there all the same, and returns the error of the open when
\* it is not.
C16_EnsureRemoteDirSwallowsFailures ==
    /\ (/\ response.route = "/smb/mkdir"
        /\ response.initialized
        /\ \E d \in response.req.json : "remote_path" \in DOMAIN d)
       => (/\ response.code = 200
           /\ Body.status = "success"
           /\ response.calls = <<"_ensure_remote_dir">>
           /\ "smb.exists" \in Range(response.trace)
           /\ Body.remote_path =
                server_url \o <<"/">> \o
                  WithoutLeadingSlashes((CHOOSE d \in response.req.json : TRUE).remote_path))
    /\ (/\ response.route = "/smb/upload"
        /\ response.initialized
        /\ response.fault.step \in {"exists", "makedirs"})
       => (/\ upload_parse(response.req).create_dirs
           /\ FirstIndex(response.trace, "smb." \o response.fault.step) > 0
           /\ FirstIndex(response.trace, "smb.open_wb")
                > FirstIndex(response.trace, "smb." \o response.fault.step)
           /\ response.result # {}
           /\ IF RemoteIsDir(rd, SubSeq(UploadTarget, 1, Len(UploadTarget) - 1))
              THEN /\ ServiceResult.status = "success"
                   /\ "smb.write" \in Range(response.trace)
                   /\ rf[UploadTarget] = upload_parse(response.req).file_data
                   /\ response.code = 200
              ELSE /\ ServiceResult.status = "error"
                   /\ "smb.write" \notin Range(response.trace)
                   /\ response.code = 400)

\* C16 witness: makedirs failed for POST /smb/mkdir, the answer is 200 with
\* status success and the directory does not exist.
C16_Witness ==
    /\ response.route = "/smb/mkdir"
    /\ response.initialized
    /\ response.fault.step = "makedirs"
    /\ response.code = 200
    /\ Body.status = "success"
    /\ ShareRoot \o <<<<"d">>>> \notin rd
====
